---- MODULE Spec2Model ----
(***************************************************************************)
(* Model of three parts of volatility:                                     *)
(*   - the chunked, overlap-aware VAD region scanner                       *)
(*     (plugins/windows/vadyarascan.py, VadYaraScan.vad_iterator_factory)  *)
(*   - the yara rule assembly of VadYaraScan._generator                    *)
(*   - the object templates (framework/objects/templates.py)               *)
(* Each part has its own specification; the variables of the other parts   *)
(* stay at their idle values.                                              *)
(***************************************************************************)
EXTENDS Integers, Sequences, FiniteSets, TLC

VARIABLES
    \* ---- scan_iterator (vadyarascan.py:94-106)
    scanner,        \* the ScannerInterface: chunk_size and overlap
    vads,           \* what vad_root.traverse() yields, in its order
    min_address,    \* argument of scan_iterator
    max_address,    \* argument of scan_iterator
    pc,             \* position of the generator: "for", "while", "done", "idle"
    vad_idx,        \* number of vads fetched from the traversal so far
    start,          \* local start
    end,            \* local end
    emitted,        \* the values yielded so far, oldest first
    \* ---- VadYaraScan._generator (vadyarascan.py:55-83)
    config,         \* self.config: the keys that are set, with their values
    rules,          \* local rules
    tasks,          \* number of processes list_processes yields
    task_idx,       \* number of processes scanned so far
    scan_call,      \* the arguments of the last layer.scan call
    gen_pc,         \* "start", "tasks", "done", "raised", "idle"
    \* ---- templates (templates.py) and the symbol space they resolve against
    symbol_space,   \* context.symbol_space: structure name -> registered template
    result,         \* the last operation on a template and how it ended
    failed          \* names whose ReferenceTemplate call has raised a lookup error

scanvars == <<scanner, vads, min_address, max_address, pc, vad_idx, start, end, emitted>>

genvars == <<config, rules, tasks, task_idx, scan_call, gen_pc>>

tmplvars == <<symbol_space, result, failed>>

vars == <<scanvars, genvars, tmplvars>>

----------------------------------------------------------------------------
(* Bounds of the model *)

MaxChunk == 3
MaxLen == 6
MaxVads == 2
MaxTasks == 2

Max(a, b) == IF a >= b THEN a ELSE b
Min(a, b) == IF a <= b THEN a ELSE b
CeilDiv(a, b) == (a + b - 1) \div b

----------------------------------------------------------------------------
(* Region scanner                                                          *)

\* A scanner exposes chunk_size >= 1 and overlap with 0 <= overlap < chunk_size.
Scanners == {[chunk_size |-> c, overlap |-> o] : c \in 1..MaxChunk, o \in 0..(MaxChunk - 1)}
SmallScanners == {s \in Scanners : s.overlap < s.chunk_size}

\* The addresses vad.get_start() returns.
VadStarts == {0, 1}

\* A vad is known by what get_start() and get_end() return.
VadRanges == {[start |-> s, end |-> s + l] : s \in VadStarts, l \in 0..MaxLen}

SeqsUpTo(S, n) == UNION {[1..k -> S] : k \in 0..n}

\* The scenarios the documentation of the scanner works through.
Scenario1000 ==
    [scanner |-> [chunk_size |-> 400, overlap |-> 50],
     vads |-> <<[start |-> 0, end |-> 1000]>>]
Scenario300 ==
    [scanner |-> [chunk_size |-> 400, overlap |-> 50],
     vads |-> <<[start |-> 0, end |-> 300]>>]
ScenarioTwoRegions ==
    [scanner |-> [chunk_size |-> 1000, overlap |-> 10],
     vads |-> <<[start |-> 0, end |-> 100], [start |-> 5000, end |-> 5010]>>]

ScanInputs ==
    {[scanner |-> s, vads |-> v] : s \in SmallScanners, v \in SeqsUpTo(VadRanges, MaxVads)}
    \cup {Scenario1000, Scenario300, ScenarioTwoRegions}

\* max_address values a caller passes (config['max_size'] in _generator).
ScanLimits == {MaxLen \div 2, MaxLen + 1}

\* The traversal walked from its other end.
Traverse_Reversed(vs, idx) == vs[Len(vs) - idx + 1]

\* vadyarascan.py:99  for vad in vad_root.traverse()
Traverse(vs, idx) == vs[idx]

\* The loop test without the overlap.
LoopCondition_NoOverlap(s, e, sc) == e - s > sc.chunk_size

\* vadyarascan.py:102  while end - start > scanner.chunk_size + scanner.overlap
LoopCondition(s, e, sc) == e - s > sc.chunk_size + sc.overlap

\* A full chunk read without the overlap bytes.
LoopChunk_NoOverlap(s, sc) ==
    [start |-> s, length |-> sc.chunk_size, hint |-> s + sc.chunk_size]

\* vadyarascan.py:103-104  the value yielded inside the loop
LoopChunk(s, sc) ==
    [start |-> s,
     length |-> sc.chunk_size + sc.overlap,
     hint |-> s + sc.chunk_size + sc.overlap]

\* The cursor moved past the whole chunk read.
Advance_SkipOverlap(s, sc) == s + sc.chunk_size + sc.overlap

\* vadyarascan.py:105  start += scanner.chunk_size
Advance(s, sc) == s + sc.chunk_size

\* vadyarascan.py:106  the value yielded after the loop
Remainder(s, e) == [start |-> s, length |-> e - s, hint |-> e]

\* A yielded value, tagged with the index of the vad it was yielded for.
Tagged(chunk, idx) ==
    [vad |-> idx, start |-> chunk.start, length |-> chunk.length, hint |-> chunk.hint]

ScanIdle ==
    /\ scanner = [chunk_size |-> 1, overlap |-> 0]
    /\ vads = <<>>
    /\ min_address = 0
    /\ max_address = 0
    /\ pc = "idle"
    /\ vad_idx = 0
    /\ start = 0
    /\ end = 0
    /\ emitted = <<>>

NoRules == [kind |-> "None"]

GenIdle ==
    /\ config = [primary |-> "primary"]
    /\ rules = NoRules
    /\ tasks = 0
    /\ task_idx = 0
    /\ scan_call = <<>>
    /\ gen_pc = "idle"

\* The structure names of the symbol tables.
Names == {"_ETHREAD", "_LIST_ENTRY"}

\* No template is registered under the name.
Absent == [kind |-> "absent"]

NoResult == [op |-> "none", kind |-> "none"]

TemplatesIdle ==
    /\ symbol_space = [n \in Names |-> Absent]
    /\ result = NoResult
    /\ failed = {}

\* The call scan_iterator(scanner, min_address, max_address), before the first next().
InitScan ==
    /\ \E in \in ScanInputs :
          /\ scanner = in.scanner
          /\ vads = in.vads
    /\ min_address = 0
    /\ max_address \in ScanLimits
    /\ pc = "for"
    /\ vad_idx = 0
    /\ start = 0
    /\ end = 0
    /\ emitted = <<>>
    /\ GenIdle
    /\ TemplatesIdle

\* vadyarascan.py:99-101  the traversal yields the next vad
NextVad ==
    /\ pc = "for"
    /\ vad_idx < Len(vads)
    /\ vad_idx' = vad_idx + 1
    /\ end' = Traverse(vads, vad_idx + 1).end
    /\ start' = Traverse(vads, vad_idx + 1).start
    /\ pc' = "while"
    /\ UNCHANGED <<scanner, vads, min_address, max_address, emitted>>
    /\ UNCHANGED <<genvars, tmplvars>>

\* vadyarascan.py:99  the traversal is exhausted
ScanDone ==
    /\ pc = "for"
    /\ vad_idx = Len(vads)
    /\ pc' = "done"
    /\ UNCHANGED <<scanner, vads, min_address, max_address, vad_idx, start, end, emitted>>
    /\ UNCHANGED <<genvars, tmplvars>>

\* vadyarascan.py:102-105  one turn of the loop
YieldChunk ==
    /\ pc = "while"
    /\ LoopCondition(start, end, scanner)
    /\ emitted' = Append(emitted, Tagged(LoopChunk(start, scanner), vad_idx))
    /\ start' = Advance(start, scanner)
    /\ UNCHANGED <<scanner, vads, min_address, max_address, pc, vad_idx, end>>
    /\ UNCHANGED <<genvars, tmplvars>>

\* vadyarascan.py:102,106  the loop ends, the remainder is yielded
YieldRemainder ==
    /\ pc = "while"
    /\ ~LoopCondition(start, end, scanner)
    /\ emitted' = Append(emitted, Tagged(Remainder(start, end), vad_idx))
    /\ pc' = "for"
    /\ UNCHANGED <<scanner, vads, min_address, max_address, vad_idx, start, end>>
    /\ UNCHANGED <<genvars, tmplvars>>

NextScan ==
    \/ NextVad
    \/ ScanDone
    \/ YieldChunk
    \/ YieldRemainder

Spec == InitScan /\ [][NextScan]_vars

----------------------------------------------------------------------------
(* VadYaraScan._generator                                                  *)

\* Text is a sequence of characters.
Quote == <<"\"">>
NoCase == <<" ", "n", "o", "c", "a", "s", "e">>
WideAscii == <<" ", "w", "i", "d", "e", " ", "a", "s", "c", "i", "i">>
RulePrefix == <<"rule r1 {strings: $a = ">>
RuleSuffix == <<" condition: $a}">>

\* The yara_rules strings tried: a plain string, a hex string, a regular
\* expression, and "".
RuleStrings ==
    {<<"a", "b">>, <<"{", "4", "1", "}">>, <<"/", "a", "/">>, <<>>}

\* vadyarascan.py:49-52  the default of max_size
DefaultMaxSize == 1073741824

\* dict.get(key, default)
Get(d, k, default) == IF k \in DOMAIN d THEN d[k] ELSE default

\* The settings of one optional key: unset, or one of its values.
Optional(k, values) == {<<>>} \cup {k :> v : v \in values}

\* vadyarascan.py:22-53  the configurations get_requirements admits, and 'case',
\* a key no requirement declares but a configuration may carry.
Configs ==
    {[primary |-> "primary", nt_symbols |-> "nt_symbols", max_size |-> DefaultMaxSize]
        @@ a @@ b @@ c @@ d @@ e :
        a \in Optional("yara_rules", RuleStrings),
        b \in Optional("yara_file", {"file:rules.yar"}),
        c \in Optional("insensitive", BOOLEAN),
        d \in Optional("wide", BOOLEAN),
        e \in Optional("case", BOOLEAN)}

\* vadyarascan.py:61-62  a rule that is neither hex nor regex is quoted
Quoted(rule) ==
    IF rule[1] \notin {"{", "/"} THEN Quote \o rule \o Quote ELSE rule

\* vadyarascan.py:63-64
WithNocase(rule, cfg) ==
    IF Get(cfg, "case", FALSE) THEN rule \o NoCase ELSE rule

\* vadyarascan.py:65-66
WithWide(rule, cfg) ==
    IF Get(cfg, "wide", FALSE) THEN rule \o WideAscii ELSE rule

\* vadyarascan.py:58-71  the rules compiled from the configuration; rule[0] of
\* an empty yara_rules raises IndexError.
CompileRules(cfg) ==
    IF "yara_rules" \in DOMAIN cfg
    THEN IF cfg["yara_rules"] = <<>>
         THEN [kind |-> "IndexError"]
         ELSE [kind |-> "sources",
               source |-> RulePrefix
                          \o WithWide(WithNocase(Quoted(cfg["yara_rules"]), cfg), cfg)
                          \o RuleSuffix]
    ELSE IF "yara_file" \in DOMAIN cfg
         THEN [kind |-> "file", file |-> cfg["yara_file"]]
         ELSE NoRules

InitGenerator ==
    /\ config \in Configs
    /\ rules = NoRules
    /\ tasks \in 0..MaxTasks
    /\ task_idx = 0
    /\ scan_call = <<>>
    /\ gen_pc = "start"
    /\ ScanIdle
    /\ TemplatesIdle

\* vadyarascan.py:57-73  the rules are compiled
Compile ==
    /\ gen_pc = "start"
    /\ CompileRules(config).kind # "IndexError"
    /\ rules' = CompileRules(config)
    /\ gen_pc' = "tasks"
    /\ UNCHANGED <<config, tasks, task_idx, scan_call>>
    /\ UNCHANGED <<scanvars, tmplvars>>

\* vadyarascan.py:61  rule[0] raises on an empty rule
CompileRaises ==
    /\ gen_pc = "start"
    /\ CompileRules(config).kind = "IndexError"
    /\ gen_pc' = "raised"
    /\ UNCHANGED <<config, rules, tasks, task_idx, scan_call>>
    /\ UNCHANGED <<scanvars, tmplvars>>

\* vadyarascan.py:75-83  the next process is scanned: layer.scan is called with
\* the compiled rules, max_size and the process's scan_iterator (whose chunks
\* are those of Spec).
ScanTask ==
    /\ gen_pc = "tasks"
    /\ task_idx < tasks
    /\ task_idx' = task_idx + 1
    /\ scan_call' = [task |-> task_idx + 1,
                     rules |-> rules,
                     max_address |-> config["max_size"]]
    /\ UNCHANGED <<config, rules, tasks, gen_pc>>
    /\ UNCHANGED <<scanvars, tmplvars>>

\* vadyarascan.py:75  list_processes is exhausted
GeneratorDone ==
    /\ gen_pc = "tasks"
    /\ task_idx = tasks
    /\ gen_pc' = "done"
    /\ UNCHANGED <<config, rules, tasks, task_idx, scan_call>>
    /\ UNCHANGED <<scanvars, tmplvars>>

NextGenerator ==
    \/ Compile
    \/ CompileRaises
    \/ ScanTask
    \/ GeneratorDone

SpecGenerator == InitGenerator /\ [][NextGenerator]_vars

\* The text t occurs in the text s.
Occurs(t, s) ==
    \E k \in 0..(Len(s) - Len(t)) : SubSeq(s, k + 1, k + Len(t)) = t

\* C10 as stated: when yara_rules is given, the compiled rule carries the
\* nocase modifier exactly when the configuration sets insensitive to true.
InsensitiveAddsNocase ==
    (gen_pc \in {"tasks", "done"} /\ "yara_rules" \in DOMAIN config)
        => (Occurs(NoCase, rules.source) <=> Get(config, "insensitive", FALSE))

----------------------------------------------------------------------------
(* Templates                                                               *)

\* Classes that implement interfaces.objects.ObjectInterface: a scalar and a
\* composite one.
ObjectClasses == {"Integer", "Struct"}

\* What a caller may pass as object_class: an object class, the default None,
\* or a class that is no object class.
ClassArguments == ObjectClasses \cup {"None", "dict"}

\* templates.py:69-73  a ReferenceTemplate carries only structure_name
ReferenceTemplate(name) ==
    [kind |-> "ReferenceTemplate", volinfo |-> [structure_name |-> name]]

\* The **arguments templates are built with: a size, and for a composite the
\* members with their offsets, each member type a deferred reference.
Arguments ==
    {[size |-> 4]}
    \cup {[size |-> 8, members |-> <<[offset |-> 4, child |-> ReferenceTemplate(n)]>>] :
            n \in Names}

ObjectInfos == {[layer_name |-> "primary", offset |-> o] : o \in {0, 4096}}

\* The mapping m without the key k.
Without(m, k) == [x \in DOMAIN m \ {k} |-> m[x]]

\* interfaces.objects.Template.__init__: the template's parameters are its
\* structure_name and the other keyword arguments.
Template_init(structure_name, arguments) ==
    [kind |-> "ObjectTemplate",
     volinfo |-> [structure_name |-> structure_name] @@ arguments]

\* interfaces.objects.Template.update_volinfo
update_volinfo(self, new) == [self EXCEPT !.volinfo = new @@ self.volinfo]

\* validity.ValidityRoutines._class_check: a validation error unless the class
\* given implements the interface required.
class_check(object_class, required) ==
    IF object_class \in required THEN "None" ELSE "ValidationError"

\* The object_class is stored without the check.
ObjectTemplate_init_Unchecked(object_class, structure_name, arguments) ==
    [raised |-> "None",
     self |-> update_volinfo(Template_init(structure_name, arguments),
                             [object_class |-> object_class])]

\* templates.py:20-25  ObjectTemplate.__init__: what it raises, and the
\* template as it stands when __init__ returns or raises.
ObjectTemplate_init(object_class, structure_name, arguments) ==
    LET self == Template_init(structure_name, arguments) IN
    IF class_check(object_class, ObjectClasses) # "None"
    THEN [raised |-> class_check(object_class, ObjectClasses), self |-> self]
    ELSE [raised |-> "None",
          self |-> update_volinfo(self, [object_class |-> object_class])]

\* object_class._template_size
template_size(self) == self.volinfo.size

\* object_class._template_children
template_children(self) ==
    IF "members" \in DOMAIN self.volinfo
    THEN [i \in 1..Len(self.volinfo.members) |-> self.volinfo.members[i].child]
    ELSE <<>>

\* object_class._template_relative_child_offset
template_relative_child_offset(self, child) ==
    IF self.volinfo.object_class # "Struct"
    THEN [raised |-> "NotImplementedError"]
    ELSE IF \E i \in 1..Len(template_children(self)) : template_children(self)[i] = child
    THEN [raised |-> "None",
          value |-> self.volinfo.members[
                        CHOOSE i \in 1..Len(template_children(self)) :
                            template_children(self)[i] = child].offset]
    ELSE [raised |-> "ChildNotFoundException"]

\* object_class._template_replace_child
template_replace_child(self, old_child, new_child) ==
    IF "members" \in DOMAIN self.volinfo
    THEN [self EXCEPT !.volinfo.members =
            [i \in 1..Len(@) |->
                IF @[i].child = old_child THEN [@[i] EXCEPT !.child = new_child] ELSE @[i]]]
    ELSE self

\* self.volinfo.object_class.<attribute>: an AttributeError when volinfo has
\* no object_class or it is no object class (None has none of the methods).
object_class_of(self) ==
    IF "object_class" \in DOMAIN self.volinfo /\ self.volinfo.object_class \in ObjectClasses
    THEN "None"
    ELSE "AttributeError"

\* templates.py:27-30  ObjectTemplate.size
ObjectTemplate_size(self) ==
    IF object_class_of(self) # "None"
    THEN [raised |-> object_class_of(self), value |-> 0]
    ELSE [raised |-> "None", value |-> template_size(self)]

\* templates.py:32-38  ObjectTemplate.children
ObjectTemplate_children(self) ==
    IF object_class_of(self) # "None"
    THEN [raised |-> object_class_of(self), value |-> <<>>]
    ELSE [raised |-> "None", value |-> template_children(self)]

\* templates.py:40-45  ObjectTemplate.relative_child_offset
ObjectTemplate_relative_child_offset(self, child) ==
    IF object_class_of(self) # "None"
    THEN [raised |-> object_class_of(self)]
    ELSE template_relative_child_offset(self, child)

\* templates.py:47-52  ObjectTemplate.replace_child: what it raises and the
\* template after it.
ObjectTemplate_replace_child(self, old_child, new_child) ==
    IF object_class_of(self) # "None"
    THEN [raised |-> object_class_of(self), self |-> self]
    ELSE [raised |-> "None", self |-> template_replace_child(self, old_child, new_child)]

\* object_class(context = ..., object_info = ..., **arguments): the object is
\* known by the class called and the arguments it was called with.
Construct(object_class, context, object_info, arguments) ==
    [object_class |-> object_class,
     context |-> context.name,
     object_info |-> object_info,
     arguments |-> arguments]

\* No object was made.
NoObject == [object_class |-> "None"]

\* The key is deleted from the template's own parameters.
ObjectTemplate_call_InPlace(self, context, object_info) ==
    IF "object_class" \notin DOMAIN self.volinfo
    THEN [raised |-> "KeyError", self |-> self, object |-> NoObject]
    ELSE [raised |-> "None",
          self |-> [self EXCEPT !.volinfo = Without(self.volinfo, "object_class")],
          object |-> Construct(self.volinfo.object_class, context, object_info,
                               Without(self.volinfo, "object_class"))]

\* templates.py:54-66  ObjectTemplate.__call__: what it raises, the template
\* after the call and the object made. del raises KeyError when the parameters
\* hold no object_class; calling None raises TypeError.
ObjectTemplate_call(self, context, object_info) ==
    IF "object_class" \notin DOMAIN self.volinfo
    THEN [raised |-> "KeyError", self |-> self, object |-> NoObject]
    ELSE LET arguments == Without(self.volinfo, "object_class") IN
         IF self.volinfo.object_class = "None"
         THEN [raised |-> "TypeError", self |-> self, object |-> NoObject]
         ELSE [raised |-> "None",
               self |-> self,
               object |-> Construct(self.volinfo.object_class, context, object_info,
                                    arguments)]

\* SymbolSpace.get_structure: the template registered under the name, or a
\* lookup error.
get_structure(space, structure_name) ==
    IF space[structure_name] = Absent
    THEN [raised |-> "LookupError"]
    ELSE [raised |-> "None", template |-> space[structure_name]]

\* A lookup error, once raised for a name, is remembered.
ReferenceTemplate_call_Memoized(self, context, object_info) ==
    IF self.volinfo.structure_name \in failed
    THEN [raised |-> "LookupError", object |-> NoObject]
    ELSE LET found == get_structure(context.symbol_space, self.volinfo.structure_name) IN
         IF found.raised # "None"
         THEN [raised |-> found.raised, object |-> NoObject]
         ELSE ObjectTemplate_call(found.template, context, object_info)

\* templates.py:75-77  ReferenceTemplate.__call__: the registered template is
\* looked up and called.
ReferenceTemplate_call(self, context, object_info) ==
    LET found == get_structure(context.symbol_space, self.volinfo.structure_name) IN
    IF found.raised # "None"
    THEN [raised |-> found.raised, object |-> NoObject]
    ELSE ObjectTemplate_call(found.template, context, object_info)

\* The execution context of the calls.
Context == [name |-> "context", symbol_space |-> symbol_space]

Registered == {n \in Names : symbol_space[n] # Absent}

InitTemplates ==
    /\ TemplatesIdle
    /\ ScanIdle
    /\ GenIdle

\* templates.py:20-25  an ObjectTemplate is built
Build ==
    \E c \in ClassArguments, n \in Names, a \in Arguments :
        LET built == ObjectTemplate_init(c, n, a) IN
        /\ result' = [op |-> "build", kind |-> built.raised,
                      object_class |-> c, template |-> built.self]
        /\ UNCHANGED <<symbol_space, failed>>
        /\ UNCHANGED <<scanvars, genvars>>

\* The template just built is registered under its structure name, in place
\* of the one registered before.
Register ==
    /\ result.op = "build"
    /\ result.kind = "None"
    /\ symbol_space' =
          [symbol_space EXCEPT ![result.template.volinfo.structure_name] = result.template]
    /\ result' = [op |-> "register", kind |-> "None",
                  target |-> result.template.volinfo.structure_name]
    /\ UNCHANGED failed
    /\ UNCHANGED <<scanvars, genvars>>

\* templates.py:27-30
Size ==
    \E n \in Registered :
        /\ result' = [op |-> "size", kind |-> ObjectTemplate_size(symbol_space[n]).raised,
                      target |-> n,
                      value |-> ObjectTemplate_size(symbol_space[n]).value]
        /\ UNCHANGED <<symbol_space, failed>>
        /\ UNCHANGED <<scanvars, genvars>>

\* templates.py:32-38
Children ==
    \E n \in Registered :
        /\ result' = [op |-> "children",
                      kind |-> ObjectTemplate_children(symbol_space[n]).raised,
                      target |-> n,
                      value |-> ObjectTemplate_children(symbol_space[n]).value]
        /\ UNCHANGED <<symbol_space, failed>>
        /\ UNCHANGED <<scanvars, genvars>>

\* templates.py:40-45
RelativeChildOffset ==
    \E n \in Registered, m \in Names :
        LET r == ObjectTemplate_relative_child_offset(symbol_space[n], ReferenceTemplate(m)) IN
        /\ result' = [op |-> "relative_child_offset", kind |-> r.raised, target |-> n,
                      child |-> m,
                      value |-> IF r.raised = "None" THEN r.value ELSE 0]
        /\ UNCHANGED <<symbol_space, failed>>
        /\ UNCHANGED <<scanvars, genvars>>

\* templates.py:47-52
ReplaceChild ==
    \E n \in Registered, old \in Names, new \in Names :
        LET r == ObjectTemplate_replace_child(symbol_space[n], ReferenceTemplate(old),
                                              ReferenceTemplate(new)) IN
        /\ symbol_space' = [symbol_space EXCEPT ![n] = r.self]
        /\ result' = [op |-> "replace_child", kind |-> r.raised, target |-> n]
        /\ UNCHANGED failed
        /\ UNCHANGED <<scanvars, genvars>>

\* templates.py:54-66  a registered ObjectTemplate is called
CallObjectTemplate ==
    \E n \in Registered, info \in ObjectInfos :
        LET r == ObjectTemplate_call(symbol_space[n], Context, info) IN
        /\ symbol_space' = [symbol_space EXCEPT ![n] = r.self]
        /\ result' = [op |-> "construct", kind |-> r.raised, target |-> n,
                      object_info |-> info, object |-> r.object]
        /\ UNCHANGED failed
        /\ UNCHANGED <<scanvars, genvars>>

\* templates.py:75-77  the ReferenceTemplate of a name is called and raises
CallReferenceRaises ==
    \E n \in Names, info \in ObjectInfos :
        LET r == ReferenceTemplate_call(ReferenceTemplate(n), Context, info) IN
        /\ r.raised # "None"
        /\ result' = [op |-> "reference", kind |-> r.raised, target |-> n,
                      object_info |-> info, object |-> r.object]
        /\ failed' = failed \cup {n}
        /\ UNCHANGED symbol_space
        /\ UNCHANGED <<scanvars, genvars>>

\* templates.py:75-77  the ReferenceTemplate of a name is called and returns
CallReference ==
    \E n \in Names, info \in ObjectInfos :
        LET r == ReferenceTemplate_call(ReferenceTemplate(n), Context, info) IN
        /\ r.raised = "None"
        /\ symbol_space' = [symbol_space EXCEPT ![n] = r.self]
        /\ result' = [op |-> "reference", kind |-> r.raised, target |-> n,
                      object_info |-> info, object |-> r.object]
        /\ UNCHANGED failed
        /\ UNCHANGED <<scanvars, genvars>>

NextTemplates ==
    \/ Build
    \/ Register
    \/ Size
    \/ Children
    \/ RelativeChildOffset
    \/ ReplaceChild
    \/ CallObjectTemplate
    \/ CallReferenceRaises
    \/ CallReference

SpecTemplates == InitTemplates /\ [][NextTemplates]_vars

----------------------------------------------------------------------------
(* Properties of the region scanner                                        *)

\* The chunks yielded so far for the vad the traversal gave at position i.
RegionChunks(i) == SelectSeq(emitted, LAMBDA c : c.vad = i)

\* The remainder of vad i has been yielded.
RegionDone(i) == i < vad_idx \/ (i = vad_idx /\ pc \in {"for", "done"})

ChunkEnd(c) == c.start + c.length

DoneRegions == {i \in 1..Len(vads) : RegionDone(i)}

\* The byte range [p, p + n) lies inside chunk c.
Contains(c, p, n) == c.start <= p /\ p + n <= ChunkEnd(c)

\* C1: the chunks of a finished region [start, end) cover it without a gap
\* (the first begins at start, the last ends at end, each begins at or before
\* the end of the one before) and consecutive chunks overlap by exactly
\* overlap bytes, the last full chunk and the remainder included.
CoverageAndOverlap ==
    \A i \in DoneRegions :
        LET cs == RegionChunks(i) IN
        /\ Len(cs) >= 1
        /\ cs[1].start = vads[i].start
        /\ ChunkEnd(cs[Len(cs)]) = vads[i].end
        /\ \A j \in 1..(Len(cs) - 1) :
              /\ cs[j + 1].start <= ChunkEnd(cs[j])
              /\ cs[j + 1].start > cs[j].start
              /\ Min(ChunkEnd(cs[j]), ChunkEnd(cs[j + 1])) - cs[j + 1].start
                     = scanner.overlap

\* A finished region of at least three chunks under a scanner with an overlap.
CoverageWitness ==
    \E i \in DoneRegions :
        /\ Len(RegionChunks(i)) >= 3
        /\ scanner.overlap >= 1
        /\ vads[i].start >= 1

\* C2: a finished region of length L yields ceil(max(L - O, 0) / C) chunks when
\* L > C + O and otherwise exactly one chunk, [start, end) itself; the region
\* [0, 1000) with C = 400, O = 50 yields [0,450), [400,850), [800,1000).
ChunkCount ==
    /\ \A i \in DoneRegions :
          LET cs == RegionChunks(i)
              L == vads[i].end - vads[i].start
              C == scanner.chunk_size
              O == scanner.overlap
          IN  IF L > C + O
              THEN Len(cs) = CeilDiv(Max(L - O, 0), C)
              ELSE /\ Len(cs) = 1
                   /\ cs[1].start = vads[i].start
                   /\ cs[1].length = L
    /\ (/\ scanner = Scenario1000.scanner
        /\ vads = Scenario1000.vads
        /\ RegionDone(1))
       => [k \in 1..Len(emitted) |-> <<emitted[k].start, ChunkEnd(emitted[k])>>]
              = <<(<<0, 450>>), (<<400, 850>>), (<<800, 1000>>)>>

\* The documented scenario has run to its end.
ChunkCountWitness ==
       /\ scanner = Scenario1000.scanner
       /\ vads = Scenario1000.vads
       /\ pc = "done"
       /\ Len(emitted) = 3

\* C3: in a finished region every byte range [p, p + n) inside the region with
\* 1 <= n <= overlap lies whole in at least one chunk of the region.
NoSplitMatch ==
    \A i \in DoneRegions :
        LET cs == RegionChunks(i) IN
        \A n \in 1..scanner.overlap :
            \A p \in vads[i].start..(vads[i].end - n) :
                \E j \in 1..Len(cs) : Contains(cs[j], p, n)

\* A range of the greatest length that crosses the end of a full chunk and is
\* found in the chunk after it.
NoSplitMatchWitness ==
    \E i \in DoneRegions :
        LET cs == RegionChunks(i) IN
        /\ scanner.overlap >= 2
        /\ Len(cs) >= 2
        /\ \E p \in vads[i].start..(vads[i].end - scanner.overlap) :
              /\ p < ChunkEnd(cs[1])
              /\ p + scanner.overlap > ChunkEnd(cs[1])
              /\ ~Contains(cs[1], p, scanner.overlap)
              /\ Contains(cs[2], p, scanner.overlap)

\* The triples (j, n, p): chunk j of cs came from the loop and has a successor,
\* and [p, p + n) with 1 <= n <= overlap, p <= hi, crosses the address b(j).
Straddles(cs, b(_), hi) ==
    {t \in (1..(Len(cs) - 1)) \X (1..scanner.overlap) \X (0..hi) :
        t[3] < b(t[1]) /\ t[3] + t[2] > b(t[1])}

\* C4 as stated: a match of length <= overlap that crosses start + chunk_size
\* of a chunk yielded from the loop lies whole in the next chunk of the region.
StraddleInNextChunk ==
    \A i \in 1..Len(vads) :
        LET cs == RegionChunks(i)
            b(j) == cs[j].start + scanner.chunk_size
        IN  \A t \in Straddles(cs, b, vads[i].end) : Contains(cs[t[1] + 1], t[3], t[2])

\* C4 amended: a match of length <= overlap that crosses start + chunk_size of
\* a chunk yielded from the loop lies whole in that chunk, and one inside the
\* region that crosses the end of that chunk, start + chunk_size + overlap,
\* lies whole in the next chunk of the region.
StraddleInSameChunk ==
    \A i \in 1..Len(vads) :
        LET cs == RegionChunks(i)
            b(j) == cs[j].start + scanner.chunk_size
            e(j) == ChunkEnd(cs[j])
        IN  /\ \A t \in Straddles(cs, b, vads[i].end) : Contains(cs[t[1]], t[3], t[2])
            /\ \A t \in Straddles(cs, e, vads[i].end) :
                  t[3] + t[2] <= vads[i].end => Contains(cs[t[1] + 1], t[3], t[2])

\* Matches of both kinds exist: one across start + chunk_size, one across the
\* end of a chunk from the loop.
StraddleWitness ==
    \E i \in 1..Len(vads) :
        LET cs == RegionChunks(i)
            b(j) == cs[j].start + scanner.chunk_size
            e(j) == ChunkEnd(cs[j])
        IN  /\ Straddles(cs, b, vads[i].end) # {}
            /\ \E t \in Straddles(cs, e, vads[i].end) : t[3] + t[2] <= vads[i].end

\* C8 as stated: no chunk yielded by scan_iterator(scanner, min_address,
\* max_address) extends past max_address.
BoundedByMaxAddress ==
    \A k \in 1..Len(emitted) : ChunkEnd(emitted[k]) <= max_address

\* The number of chunks of the same vad before position k of emitted.
Rank(k) == Cardinality({m \in 1..(k - 1) : emitted[m].vad = emitted[k].vad})

\* C9: the chunks come region by region in the order of the traversal, within
\* a region each chunk starts exactly chunk_size after the one before, and a
\* chunk is determined by the start and end of its own region alone.
RegionOrder ==
    \A k \in 1..Len(emitted) :
        LET c == emitted[k]
            v == vads[c.vad]
            room == v.end - c.start
        IN  /\ c.vad \in 1..vad_idx
            /\ k = 1 => c.vad = 1
            /\ k > 1 => \/ /\ c.vad = emitted[k - 1].vad
                           /\ c.start = emitted[k - 1].start + scanner.chunk_size
                        \/ /\ c.vad = emitted[k - 1].vad + 1
                           /\ RegionDone(emitted[k - 1].vad)
                           /\ c.start = v.start
            /\ c.start = v.start + Rank(k) * scanner.chunk_size
            /\ c.length = IF room > scanner.chunk_size + scanner.overlap
                          THEN scanner.chunk_size + scanner.overlap
                          ELSE room

\* Two regions scanned to the end, the second below the first, the first in
\* several chunks.
RegionOrderWitness ==
    /\ pc = "done"
    /\ Len(vads) = 2
    /\ vads[2].start < vads[1].start
    /\ Len(RegionChunks(1)) >= 2
    /\ Len(RegionChunks(2)) >= 2

----------------------------------------------------------------------------
(* Properties of the templates                                             *)

\* C5: every call of a ReferenceTemplate resolves its structure_name anew: it
\* raises a lookup error and makes no object while the name is absent from
\* the symbol space, and otherwise returns what the template registered at
\* that moment constructs, whatever earlier calls did.
ResolvedOnEveryCall ==
    [][result'.op = "reference" =>
          LET n == result'.target IN
          IF symbol_space[n] = Absent
          THEN /\ result'.kind = "LookupError"
               /\ result'.object = NoObject
               /\ symbol_space' = symbol_space
          ELSE /\ result'.kind = "None"
               /\ result'.object =
                      Construct(symbol_space[n].volinfo.object_class, Context,
                                result'.object_info,
                                Without(symbol_space[n].volinfo, "object_class"))
      ]_vars

\* A call of a ReferenceTemplate returned an object though an earlier call for
\* the same name raised a lookup error.
ResolvedAfterFailure ==
    /\ result.op = "reference"
    /\ result.kind = "None"
    /\ result.target \in failed
    /\ result.object.object_class \in ObjectClasses

\* C6: building an ObjectTemplate raises a validation error exactly when
\* object_class is None or no object class, and then object_class is not among
\* the template's parameters; every template that was built has an object
\* class, and no later operation on it raises for want of one.
ValidatedAtBuild ==
    /\ result.op = "build" =>
          /\ (result.kind = "ValidationError") <=> (result.object_class \notin ObjectClasses)
          /\ result.kind \in {"None", "ValidationError"}
          /\ result.kind = "ValidationError" =>
                "object_class" \notin DOMAIN result.template.volinfo
          /\ result.kind = "None" =>
                result.template.volinfo.object_class = result.object_class
    /\ \A n \in Registered : symbol_space[n].volinfo.object_class \in ObjectClasses
    /\ result.op \in {"size", "children", "relative_child_offset", "replace_child",
                      "construct"}
          => result.kind \notin {"ValidationError", "AttributeError", "TypeError", "KeyError"}

\* A template without object_class was rejected while another one is in use.
RejectedAtBuild ==
    /\ result.op = "build"
    /\ result.kind = "ValidationError"
    /\ result.object_class = "None"
    /\ Registered # {}

\* C7: calling an ObjectTemplate calls its object_class with the context, the
\* object_info and exactly the template's parameters without object_class,
\* each with its stored value, and leaves the template's parameters as they
\* were, so that successive calls forward the same arguments.
ConstructForwardsParameters ==
    [][result'.op = "construct" =>
          LET v == symbol_space[result'.target].volinfo
              o == result'.object
          IN  /\ result'.kind = "None"
              /\ o.object_class = v.object_class
              /\ o.context = Context.name
              /\ o.object_info = result'.object_info
              /\ DOMAIN o.arguments = DOMAIN v \ {"object_class"}
              /\ \A k \in DOMAIN o.arguments : o.arguments[k] = v[k]
              /\ symbol_space' = symbol_space
              /\ (result.op = "construct" /\ result.target = result'.target)
                    => o.arguments = result.object.arguments
      ]_vars

\* A composite template was called: structure_name, size and members were
\* forwarded.
ConstructWitness ==
    /\ result.op = "construct"
    /\ result.kind = "None"
    /\ DOMAIN result.object.arguments = {"structure_name", "size", "members"}
    /\ result.object_info.offset > 0

====
